---- MODULE Spec2Model ----
(***************************************************************************)
(* A model of the nom-peg grammar front end (src/src/parser.rs): the       *)
(* recursive-descent parser parse_prefix / parse_postfix / parse_element / *)
(* parse_sequence / parse_expression / parse_definition / ParseTree::parse *)
(* run as a machine with an explicit call stack over a token stream.       *)
(*                                                                         *)
(* Tokens are atomic: identifiers, one string literal, the punctuation of  *)
(* the grammar, a brace group "{}" (the only thing syn's Block parser      *)
(* takes) and a bracket group "[T]" (a type that is not an identifier).    *)
(* syn splits no token of this alphabet but "::" and "=>", whose first     *)
(* character a Token![:] or Token![=] takes; the parse that does so fails  *)
(* right after, as it fails here.  syn's Type parser also takes a lone     *)
(* identifier (a path type), so an identifier is a type here too.          *)
(* Parentheses are a token-tree group: the stream is balanced and          *)
(* parenthesized! hands out the content as a cursor of its own while the   *)
(* outer cursor jumps past the group.                                      *)
(*                                                                         *)
(* Each frame of the stack keeps, beside the locals of the function, the   *)
(* position its cursor had when it was called (start) and, for             *)
(* parse_element, the position lookahead1() was taken at (mark).           *)
(***************************************************************************)
EXTENDS Integers, Sequences, FiniteSets, TLC

VARIABLES
    input,   \* the token stream
    bufs,    \* the live cursors (ParseBuffers); bufs[1] is the real read cursor
    stack,   \* the call stack, the running function last
    ret,     \* what the call that returned last handed to its caller
    failed   \* history: the errors parse_element has returned outside speculation

vars == <<input, bufs, stack, ret, failed>>

\* ------------------------------------------------------------------ bounds
\* Tokens in a generated run of well-formed definitions.
MaxRun == 7
\* Tokens that follow the fixed start "a =" in a free stream.
MaxTail == 3

\* ------------------------------------------------------------------ tokens
Idents == {"a", "b"}
LitStrs == {"'x'"}

\* LitStr::value(): the literal's text without its quotes.
LitValue(tok) == IF tok = "'x'" THEN "x" ELSE tok

\* What input.parse::<Type>() takes: one type fragment.
IsType(tok) == tok \in Idents \cup {"[T]"}

\* What input.parse::<Block>() takes: one brace group.
IsBlock(tok) == tok = "{}"

\* ------------------------------------------------------------------- trees
None == "None"

\* One ParseTree node.  kids: the boxed child or the Vec of children;
\* name: the Ident or String a node holds; opt: its Option<..> field.
Node(tag, kids, name, opt) == [tag |-> tag, kids |-> kids, name |-> name, opt |-> opt]

NoTree == Node("NoTree", <<>>, None, None)

NonTerminal(i) == Node("NonTerminal", <<>>, i, None)
CallNode(i) == Node("Call", <<>>, i, None)
Terminal(s) == Node("Terminal", <<>>, s, None)
Capture(t, i) == Node("Capture", <<t>>, None, i)
Sequence(es, block) == Node("Sequence", es, None, block)
Choice(es) == Node("Choice", es, None, None)
Empty == Node("Empty", <<>>, None, None)
ParserDefinition(n, ty, e) == Node("ParserDefinition", <<e>>, n, ty)
DefinitionList(ds) == Node("DefinitionList", ds, None, None)

\* The match on Option<Postfix> / Option<Prefix> that wraps a parsed node.
Wrap(op, t) == IF op = None THEN t ELSE Node(op, <<t>>, None, None)

\* ----------------------------------------------------------------- cursors
\* A ParseBuffer: the next token's index and the index one past its last;
\* fork: it is a fork, or the content of a group read through a fork.
Buffer(p, e, fk) == [pos |-> p, end |-> e, fork |-> fk]

IsEmpty(bs, b) == bs[b].pos >= bs[b].end

\* input.peek(..): the token under the cursor.
Cur(bs, b) == IF bs[b].pos < bs[b].end THEN input[bs[b].pos] ELSE "EOF"

\* input.peek2(..): the token after it.
Cur2(bs, b) == IF bs[b].pos + 1 < bs[b].end THEN input[bs[b].pos + 1] ELSE "EOF"

Advance(bs, b, n) == [bs EXCEPT ![b].pos = @ + n]

\* The index of the ")" that closes the group opened just before index i.
RECURSIVE CloseFrom(_, _, _)
CloseFrom(toks, i, depth) ==
    IF i > Len(toks) THEN i
    ELSE IF toks[i] = ")" THEN (IF depth = 0 THEN i ELSE CloseFrom(toks, i + 1, depth - 1))
    ELSE IF toks[i] = "(" THEN CloseFrom(toks, i + 1, depth + 1)
    ELSE CloseFrom(toks, i + 1, depth)

\* ------------------------------------------------------------------ frames
Frame(fn, b, bs) ==
    [fn |-> fn, pc |-> "start", buf |-> b, start |-> bs[b].pos, mark |-> 0,
     pre |-> None, name |-> None, ty |-> None, acc |-> <<>>]

NoRet == [ok |-> FALSE, val |-> NoTree, err |-> "none", fn |-> "none", start |-> 0, buf |-> 0]

Top == stack[Len(stack)]
Below == SubSeq(stack, 1, Len(stack) - 1)

\* The value a returning call hands to its caller.
Ok(f, t) == [ok |-> TRUE, val |-> t, err |-> "none", fn |-> f.fn, start |-> f.start, buf |-> f.buf]
Err(f, e) == [ok |-> FALSE, val |-> NoTree, err |-> e, fn |-> f.fn, start |-> f.start, buf |-> f.buf]

\* The machine after the running function returns r with cursors bs.
Return(bs, r) == [stack |-> Below, bufs |-> bs, ret |-> r]

\* The machine after the running function, now g, calls fn on cursor b.
Invoke(g, fn, b, bs) == [stack |-> Append(Append(Below, g), Frame(fn, b, bs)), bufs |-> bs, ret |-> NoRet]

DropLast(bs) == SubSeq(bs, 1, Len(bs) - 1)

\* ------------------------------------------------------- prefix / postfix
\* parse_prefix: takes one '&' or '!' when there is one.
parse_prefix(bs, b) ==
    CASE Cur(bs, b) = "&" -> [op |-> "Peek", bufs |-> Advance(bs, b, 1)]
      [] Cur(bs, b) = "!" -> [op |-> "Not", bufs |-> Advance(bs, b, 1)]
      [] OTHER -> [op |-> None, bufs |-> bs]

\* parse_postfix: takes one '?', '*' or '+' when there is one.
parse_postfix(bs, b) ==
    CASE Cur(bs, b) = "?" -> [op |-> "Optional", bufs |-> Advance(bs, b, 1)]
      [] Cur(bs, b) = "*" -> [op |-> "Many0", bufs |-> Advance(bs, b, 1)]
      [] Cur(bs, b) = "+" -> [op |-> "Many1", bufs |-> Advance(bs, b, 1)]
      [] OTHER -> [op |-> None, bufs |-> bs]

\* ---------------------------------------------------------- parse_element
\* input.fork(): an independent copy of cursor b, put on top of the cursors.
Fork(bs, b) == Append(bs, Buffer(bs[b].pos, bs[b].end, TRUE))

\* Mutation: the speculative parse_definition reads the forked cursor itself.
SpeculationOnInput(bs, b) == b

\* The cursor the speculative parse_definition reads: the fork.
SpeculationBuf(bs, b) == Len(bs) + 1

\* Mutation: the prefix is applied before the postfix.
ComposePrefixInside(pre, post, atom) == Wrap(post, Wrap(pre, atom))

\* The composition of the parsed atom with the postfix and the prefix.
Compose(pre, post, atom) == Wrap(pre, Wrap(post, atom))

\* Lines 141-160: the postfix is read whatever `parsed` is, then both wraps
\* are applied to an Ok value.
element_finish(f, bs, ok, val, err) ==
    LET po == parse_postfix(bs, f.buf)
    IN  Return(po.bufs, IF ok THEN Ok(f, Compose(f.pre, po.op, val)) ELSE Err(f, err))

\* Lines 90-139, up to the first nested call.
element_start(f) ==
    LET pp == parse_prefix(bufs, f.buf)
        b == f.buf
        bs == pp.bufs
        g == [f EXCEPT !.pre = pp.op, !.mark = bs[b].pos]
        tok == Cur(bs, b)
    IN  CASE tok \in Idents ->
               Invoke([g EXCEPT !.pc = "spec"], "parse_definition",
                      SpeculationBuf(bs, b), Fork(bs, b))
          [] tok = "::" ->
               LET b1 == Advance(bs, b, 1)
               IN  IF Cur(b1, b) \in Idents
                   THEN element_finish(g, Advance(b1, b, 1), TRUE, CallNode(Cur(b1, b)), "none")
                   ELSE Return(b1, Err(g, "unexpected"))
          [] tok \in LitStrs ->
               element_finish(g, Advance(bs, b, 1), TRUE, Terminal(LitValue(tok)), "none")
          [] tok = "(" ->
               LET m == CloseFrom(input, bs[b].pos + 1, 0)
                   b1 == Append([bs EXCEPT ![b].pos = m + 1], Buffer(bs[b].pos + 1, m, bs[b].fork))
               IN  Invoke([g EXCEPT !.pc = "group"], "parse_expression", Len(b1), b1)
          [] tok = "<" ->
               LET b1 == Advance(bs, b, 1)
                   named == Cur(b1, b) \in Idents /\ Cur2(b1, b) = ":"
                   b2 == IF named THEN Advance(b1, b, 2) ELSE b1
               IN  Invoke([g EXCEPT !.pc = "capture",
                                    !.name = IF named THEN Cur(b1, b) ELSE None],
                          "parse_element", b, b2)
          [] OTHER -> element_finish(g, bs, FALSE, NoTree, "unexpected")

\* Mutation: the identifier is read off a fork, the cursor left before it.
element_spec_peeking(f) ==
    LET bs == DropLast(bufs)
    IN  IF ret.ok
        THEN element_finish(f, bs, FALSE, NoTree, "boundary")
        ELSE element_finish(f, bs, TRUE, NonTerminal(Cur(bs, f.buf)), "none")

\* Mutation: the identifier is taken whatever the speculation said.
element_spec_greedy(f) ==
    LET bs == DropLast(bufs)
    IN  element_finish(f, Advance(bs, f.buf, 1), TRUE, NonTerminal(Cur(bs, f.buf)), "none")

\* Lines 96-102, after the speculative parse_definition returned: the fork is
\* dropped; Ok means a new definition starts here.
element_spec(f) ==
    LET bs == DropLast(bufs)
        b == f.buf
    IN  IF ret.ok
        THEN element_finish(f, bs, FALSE, NoTree, "boundary")
        ELSE IF Cur(bs, b) \in Idents
        THEN element_finish(f, Advance(bs, b, 1), TRUE, NonTerminal(Cur(bs, b)), "none")
        ELSE Return(bs, Err(f, "unexpected"))

\* Line 117, after parse_expression(&content) returned: content is dropped.
element_group(f) ==
    LET bs == DropLast(bufs)
    IN  IF ret.ok
        THEN element_finish(f, bs, TRUE, ret.val, "none")
        ELSE Return(bs, Err(f, ret.err))

\* Lines 133-136, after the inner parse_element returned.
element_capture(f) ==
    IF ~ret.ok THEN Return(bufs, Err(f, ret.err))
    ELSE IF Cur(bufs, f.buf) = ">"
    THEN element_finish(f, Advance(bufs, f.buf, 1), TRUE, Capture(ret.val, f.name), "none")
    ELSE Return(bufs, Err(f, "unterminated_capture"))

element_step(f) ==
    CASE f.pc = "start" -> element_start(f)
      [] f.pc = "spec" -> element_spec(f)
      [] f.pc = "group" -> element_group(f)
      [] f.pc = "capture" -> element_capture(f)

\* --------------------------------------------------------- parse_sequence
\* Lines 173-192.
sequence_finish(f, bs, acc) ==
    LET b == f.buf
    IN  IF Len(acc) = 0 THEN Return(bs, Err(f, "empty_sequence"))
        ELSE IF Cur(bs, b) = "=>"
        THEN LET b1 == Advance(bs, b, 1)
             IN  IF IsBlock(Cur(b1, b))
                 THEN Return(Advance(b1, b, 1), Ok(f, Sequence(acc, Cur(b1, b))))
                 ELSE Return(b1, Err(f, "unexpected"))
        ELSE Return(bs, Ok(f, Sequence(acc, None)))

\* Line 166: the loop test, then the next parse_element or the loop's exit.
sequence_loop(f, acc) ==
    IF ~IsEmpty(bufs, f.buf)
    THEN Invoke([f EXCEPT !.pc = "elem", !.acc = acc], "parse_element", f.buf, bufs)
    ELSE sequence_finish(f, bufs, acc)

\* Lines 167-170: what the loop does with parse_element's result.
sequence_elem(f) ==
    IF ret.ok THEN sequence_loop(f, Append(f.acc, ret.val))
    ELSE sequence_finish(f, bufs, f.acc)

sequence_step(f) ==
    CASE f.pc = "start" -> sequence_loop(f, <<>>)
      [] f.pc = "elem" -> sequence_elem(f)

\* ------------------------------------------------------- parse_expression
\* Mutation: one sequence is wrapped in a Choice too.
expression_result_wrapped(acc) == IF Len(acc) = 0 THEN Empty ELSE Choice(acc)

\* Lines 204-208.
expression_result(acc) ==
    CASE Len(acc) = 0 -> Empty
      [] Len(acc) = 1 -> acc[1]
      [] OTHER -> Choice(acc)

\* Lines 198-202, after a parse_sequence returned.
expression_seq(f) ==
    IF ~ret.ok THEN Return(bufs, Err(f, ret.err))
    ELSE LET acc == Append(f.acc, ret.val)
         IN  IF ~IsEmpty(bufs, f.buf) /\ Cur(bufs, f.buf) = "|"
             THEN Invoke([f EXCEPT !.acc = acc], "parse_sequence", f.buf,
                         Advance(bufs, f.buf, 1))
             ELSE Return(bufs, Ok(f, expression_result(acc)))

expression_step(f) ==
    CASE f.pc = "start" -> Invoke([f EXCEPT !.pc = "seq"], "parse_sequence", f.buf, bufs)
      [] f.pc = "seq" -> expression_seq(f)

\* ------------------------------------------------------- parse_definition
\* Lines 213-227: the header, then the call of parse_expression.
definition_start(f) ==
    LET b == f.buf
        tok == Cur(bufs, b)
        b1 == Advance(bufs, b, 1)
        typed == Cur(b1, b) = ":"
        b2 == Advance(b1, b, 1)
        b3 == IF typed THEN Advance(b2, b, 1) ELSE b1
    IN  IF tok \notin Idents THEN Return(bufs, Err(f, "unexpected"))
        ELSE IF typed /\ ~IsType(Cur(b2, b)) THEN Return(b2, Err(f, "unexpected"))
        ELSE IF Cur(b3, b) # "=" THEN Return(b3, Err(f, "unexpected"))
        ELSE Invoke([f EXCEPT !.pc = "expr", !.name = tok,
                              !.ty = IF typed THEN Cur(b2, b) ELSE None],
                    "parse_expression", b, Advance(b3, b, 1))

\* Lines 227-230.
definition_expr(f) ==
    IF ret.ok THEN Return(bufs, Ok(f, ParserDefinition(f.name, f.ty, ret.val)))
    ELSE Return(bufs, Err(f, ret.err))

definition_step(f) ==
    CASE f.pc = "start" -> definition_start(f)
      [] f.pc = "expr" -> definition_expr(f)

\* ------------------------------------------------------ ParseTree::parse
\* Mutation: a failed definition ends the loop as a failed element ends a
\* sequence.
grammar_def_lenient(f) ==
    IF ~ret.ok THEN Return(bufs, Ok(f, DefinitionList(f.acc)))
    ELSE LET acc == Append(f.acc, ret.val)
         IN  IF ~IsEmpty(bufs, f.buf)
             THEN Invoke([f EXCEPT !.acc = acc], "parse_definition", f.buf, bufs)
             ELSE Return(bufs, Ok(f, DefinitionList(acc)))

\* Lines 237-241, after a parse_definition returned.
grammar_def(f) ==
    IF ~ret.ok THEN Return(bufs, Err(f, ret.err))
    ELSE LET acc == Append(f.acc, ret.val)
         IN  IF ~IsEmpty(bufs, f.buf)
             THEN Invoke([f EXCEPT !.acc = acc], "parse_definition", f.buf, bufs)
             ELSE Return(bufs, Ok(f, DefinitionList(acc)))

grammar_step(f) ==
    CASE f.pc = "start" -> Invoke([f EXCEPT !.pc = "def"], "parse_definition", f.buf, bufs)
      [] f.pc = "def" -> grammar_def(f)

\* ----------------------------------------------------------------- actions
Running(fn) == stack # <<>> /\ Top.fn = fn

Apply(r) ==
    /\ stack' = r.stack
    /\ bufs' = r.bufs
    /\ ret' = r.ret
    /\ failed' = IF r.ret.fn = "parse_element" /\ ~r.ret.ok /\ ~bufs[r.ret.buf].fork
                 THEN failed \cup {r.ret.err}
                 ELSE failed
    /\ UNCHANGED input

parse_element == Running("parse_element") /\ Apply(element_step(Top))

parse_sequence == Running("parse_sequence") /\ Apply(sequence_step(Top))

parse_expression == Running("parse_expression") /\ Apply(expression_step(Top))

parse_definition == Running("parse_definition") /\ Apply(definition_step(Top))

parse == Running("parse") /\ Apply(grammar_step(Top))

Next ==
    \/ parse_element
    \/ parse_sequence
    \/ parse_expression
    \/ parse_definition
    \/ parse

\* ------------------------------------------------------------------ inputs
\* The token streams the parser is run on.  Three families:
\*   WellFormedRuns  runs of definitions whose bodies are identifiers and
\*                   string literals;
\*   ElementStreams  a rule whose body is one element prefix? atom postfix?
\*                   with captures and groups nested once, alone or between
\*                   other rules;
\*   FreeStreams     "a =" followed by any balanced run of tokens, alone or
\*                   before a further definition.
Seqs(S, lo, hi) == UNION {[1..n -> S] : n \in lo..hi}

Headers == {<<"a", "=">>, <<"b", "=">>, <<"a", ":", "[T]", "=">>, <<"b", ":", "a", "=">>}

\* The well-formed definitions of at most k tokens.
WellFormedDefs(k) ==
    UNION {{h \o e : e \in Seqs(Idents \cup LitStrs, 1, k - Len(h))} : h \in Headers}

\* The runs of at most n definitions that hold at most MaxRun tokens.
RECURSIVE Runs(_)
Runs(n) ==
    IF n = 1 THEN WellFormedDefs(MaxRun)
    ELSE LET shorter == Runs(n - 1)
         IN  shorter \cup
             UNION {{r \o d : d \in WellFormedDefs(MaxRun - Len(r))} : r \in shorter}

\* A definition holds three tokens or more.
WellFormedRuns == Runs(MaxRun \div 3)

Prefixes == {<<>>, <<"&">>, <<"!">>}
Postfixes == {<<>>, <<"?">>, <<"*">>, <<"+">>}
PlainAtoms == {<<"a">>, <<"'x'">>, <<"::", "a">>}
PlainElements == {p \o a \o q : p \in Prefixes, a \in PlainAtoms, q \in Postfixes}
NestedAtoms ==
    UNION {{<<"(">> \o e \o <<")">>, <<"(">> \o e \o <<"|", "b", ")">>,
            <<"<">> \o e \o <<">">>, <<"<", "b", ":">> \o e \o <<">">>}
           : e \in PlainElements}
Elements == PlainElements \cup {p \o a \o q : p \in Prefixes, a \in NestedAtoms, q \in Postfixes}

Suffixes == {<<>>, <<"b", "=", "'x'">>}

\* The rule "a = element", alone, before a further rule, or after a rule
\* that ends in the identifier a (so that it is also read speculatively).
ElementStreams ==
    {h \o <<"a", "=">> \o e \o s : h \in {<<>>, <<"b", "=", "a">>}, e \in Elements, s \in Suffixes}

Alphabet ==
    Idents \cup LitStrs \cup
    {"=", ":", "::", "(", ")", "<", ">", "&", "!", "?", "*", "+", "|", "=>", "{}", "[T]"}

\* Every ")" closes a "(" and every "(" is closed: what a lexer hands over.
RECURSIVE Depth(_, _)
Depth(toks, n) ==
    IF n = 0 THEN 0
    ELSE LET d == Depth(toks, n - 1)
         IN  IF d < 0 THEN d
             ELSE IF toks[n] = "(" THEN d + 1
             ELSE IF toks[n] = ")" THEN (IF d = 0 THEN 0 - 1 ELSE d - 1)
             ELSE d

Balanced(toks) == Depth(toks, Len(toks)) = 0

\* The free streams whose balanced run of tokens holds at most n tokens.
FreeStreams(n) ==
    {<<"a", "=">> \o t \o s : t \in {x \in Seqs(Alphabet, 0, n) : Balanced(x)},
                              s \in Suffixes}

Inputs == WellFormedRuns \cup ElementStreams \cup FreeStreams(MaxTail)

\* The streams termination is checked on: the free streams one token shorter.
FairInputs == WellFormedRuns \cup ElementStreams \cup FreeStreams(MaxTail - 1)

\* --------------------------------------------------------------- behaviour
\* The state when ParseTree::parse is entered on the whole stream toks.
Entered(toks) ==
    /\ input = toks
    /\ bufs = <<Buffer(1, Len(input) + 1, FALSE)>>
    /\ stack = <<Frame("parse", 1, <<Buffer(1, Len(input) + 1, FALSE)>>)>>
    /\ ret = NoRet
    /\ failed = {}

Init == \E toks \in Inputs : Entered(toks)

FairInit == \E toks \in FairInputs : Entered(toks)

Spec == Init /\ [][Next]_vars

\* The parser is one call stack that runs until it returns.
FairSpec == FairInit /\ [][Next]_vars /\ WF_vars(Next)

Done == stack = <<>>

\* ============================================================== properties
\* What the grammar of the input language says about a token stream, stated
\* on the tokens alone.

\* The length of the rule header IDENT (':' TYPE)? '=' that the tokens
\* toks[i], ..., toks[e - 1] start with; 0 when they start with none.
HeaderLen(toks, i, e) ==
    IF i < e /\ toks[i] \in Idents
    THEN IF i + 1 < e /\ toks[i + 1] = "=" THEN 2
         ELSE IF i + 3 < e /\ toks[i + 1] = ":" /\ IsType(toks[i + 2]) /\ toks[i + 3] = "="
         THEN 4
         ELSE 0
    ELSE 0

\* A rule header starts at i (and i is not the type of an earlier header).
StartsRule(toks, i) ==
    /\ HeaderLen(toks, i, Len(toks) + 1) > 0
    /\ (i = 1 \/ toks[i - 1] # ":")

\* The first rule header at or after i, Len(toks) + 1 when there is none.
RECURSIVE NextRule(_, _)
NextRule(toks, i) ==
    IF i > Len(toks) \/ StartsRule(toks, i) THEN i ELSE NextRule(toks, i + 1)

BodyStart(toks, i) == i + HeaderLen(toks, i, Len(toks) + 1)

\* toks is a run of definitions, each body a non-empty run of identifiers
\* and string literals.
IsRunOfRules(toks) ==
    /\ Len(toks) > 0
    /\ StartsRule(toks, 1)
    /\ \A i \in 1..Len(toks) :
         StartsRule(toks, i) =>
           /\ BodyStart(toks, i) <= Len(toks)
           /\ ~StartsRule(toks, BodyStart(toks, i))
           /\ \A j \in BodyStart(toks, i)..(NextRule(toks, BodyStart(toks, i)) - 1) :
                toks[j] \in Idents \cup LitStrs

\* The elements written at toks[i], ..., toks[e - 1].
RECURSIVE WrittenElements(_, _, _)
WrittenElements(toks, i, e) ==
    IF i >= e THEN <<>>
    ELSE <<IF toks[i] \in Idents THEN NonTerminal(toks[i]) ELSE Terminal(LitValue(toks[i]))>>
         \o WrittenElements(toks, i + 1, e)

\* The definitions written from the rule header at i on.
RECURSIVE WrittenRules(_, _)
WrittenRules(toks, i) ==
    IF i > Len(toks) THEN <<>>
    ELSE LET body == BodyStart(toks, i)
             nxt == NextRule(toks, body)
         IN  <<ParserDefinition(toks[i],
                                IF body - i = 4 THEN toks[i + 2] ELSE None,
                                Sequence(WrittenElements(toks, body, nxt), None))>>
             \o WrittenRules(toks, nxt)

\* C1: for a token stream that is a run of well-formed definitions whose
\* bodies are identifiers and string literals, the parse returns a
\* DefinitionList with one ParserDefinition per rule header, each holding
\* exactly the elements written between its '=' and the next rule header.
RuleBoundaries ==
    (Done /\ IsRunOfRules(input)) =>
        (ret.ok /\ ret.val = DefinitionList(WrittenRules(input, 1)))

\* a = b a / b = "x": the a that starts no definition is an element of the
\* first rule, the b that starts one is not.
RuleBoundariesWitness ==
    /\ Done
    /\ input = <<"a", "=", "b", "a", "b", "=", "'x'">>
    /\ ret.ok
    /\ Len(ret.val.kids) = 2
    /\ ret.val.kids[1].kids[1].kids = <<NonTerminal("b"), NonTerminal("a")>>
    /\ ret.val.kids[2].kids[1].kids = <<Terminal("x")>>

\* C2: whenever parse_element fails, outside speculation, for a reason other
\* than the rule-boundary signal, the top-level parse returns an error.
HardFailuresPropagate ==
    (Done /\ failed \ {"boundary"} # {}) => ~ret.ok

\* The node a prefix or postfix token stands for.
PrefixTag(tok) == IF tok = "&" THEN "Peek" ELSE IF tok = "!" THEN "Not" ELSE None
PostfixTag(tok) ==
    IF tok = "?" THEN "Optional" ELSE IF tok = "*" THEN "Many0"
    ELSE IF tok = "+" THEN "Many1" ELSE None

Kid(n) == IF Len(n.kids) >= 1 THEN n.kids[1] ELSE NoTree

\* The node n is the atom that starts with the tokens toks[i], toks[i + 1].
IsAtomAt(n, toks, i) ==
    CASE toks[i] \in Idents -> n.tag = "NonTerminal" /\ n.name = toks[i]
      [] toks[i] \in LitStrs -> n.tag = "Terminal" /\ n.name = LitValue(toks[i])
      [] toks[i] = "::" -> n.tag = "Call" /\ n.name = toks[i + 1]
      [] toks[i] = "(" -> n.tag \in {"Sequence", "Choice"}
      [] toks[i] = "<" ->
           /\ n.tag = "Capture"
           /\ n.opt = IF toks[i + 1] \in Idents /\ toks[i + 2] = ":" THEN toks[i + 1] ELSE None
      [] OTHER -> FALSE

\* The node n is what the element written at toks[s], ..., toks[e - 1] is.
IsElementAt(n, toks, s, e) ==
    LET pre == PrefixTag(toks[s])
        post == PostfixTag(toks[e - 1])
        inner == IF pre = None THEN n ELSE Kid(n)
        atom == IF post = None THEN inner ELSE Kid(inner)
    IN  /\ pre # None => n.tag = pre
        /\ post # None => inner.tag = post
        /\ IsAtomAt(atom, toks, IF pre = None THEN s ELSE s + 1)

\* C3: the node parse_element returns for prefix? atom postfix? is
\* prefix(postfix(atom)); a postfix after '>' wraps the whole Capture.
OperatorComposition ==
    (ret.fn = "parse_element" /\ ret.ok) =>
        IsElementAt(ret.val, input, ret.start, bufs[ret.buf].pos)

\* &<b: a>* on the real cursor: Peek(Many0(Capture(NonTerminal(a), Some(b)))).
OperatorCompositionWitness ==
    /\ ret.fn = "parse_element"
    /\ ret.ok
    /\ ret.buf = 1
    /\ ret.val = Wrap("Peek", Wrap("Many0", Capture(NonTerminal("a"), "b")))

\* No Empty in t, and no Choice of fewer than two alternatives.
RECURSIVE ChoicesAreWide(_)
ChoicesAreWide(t) ==
    /\ t.tag # "Empty"
    /\ t.tag = "Choice" => Len(t.kids) >= 2
    /\ \A k \in 1..Len(t.kids) : ChoicesAreWide(t.kids[k])

\* The places right after each '|' of toks[i], ..., toks[e - 1] that lies in
\* no group.
RECURSIVE AfterBars(_, _, _, _)
AfterBars(toks, i, e, depth) ==
    IF i >= e THEN <<>>
    ELSE IF toks[i] = "(" THEN AfterBars(toks, i + 1, e, depth + 1)
    ELSE IF toks[i] = ")" THEN AfterBars(toks, i + 1, e, depth - 1)
    ELSE IF toks[i] = "|" /\ depth = 0 THEN <<i + 1>> \o AfterBars(toks, i + 1, e, depth)
    ELSE AfterBars(toks, i + 1, e, depth)

\* The Sequence n starts with the element written at toks[i].
StartsAt(n, toks, i) ==
    LET first == Kid(n)
        pre == PrefixTag(toks[i])
        atom == IF first.tag \in {"Optional", "Many0", "Many1"} THEN Kid(first) ELSE first
    IN  /\ n.tag = "Sequence"
        /\ IF pre # None THEN first.tag = pre ELSE IsAtomAt(atom, toks, i)

\* C4: parse_expression returns the Sequence itself when one sequence was
\* parsed and a Choice of all of them, in source order, when two or more
\* were; so every Choice of a returned tree has at least two alternatives
\* and Empty never occurs.
ExpressionShape ==
    /\ ret.ok => ChoicesAreWide(ret.val)
    /\ (ret.fn = "parse_expression" /\ ret.ok) =>
         LET starts == <<ret.start>> \o AfterBars(input, ret.start, bufs[ret.buf].pos, 0)
         IN  IF Len(starts) = 1
             THEN StartsAt(ret.val, input, starts[1])
             ELSE /\ ret.val.tag = "Choice"
                  /\ Len(ret.val.kids) = Len(starts)
                  /\ \A k \in 1..Len(starts) : StartsAt(ret.val.kids[k], input, starts[k])

\* a = a | "x" | ... on the real cursor.
ExpressionShapeWitness ==
    /\ ret.fn = "parse_expression"
    /\ ret.ok
    /\ ret.buf = 1
    /\ ret.val.tag = "Choice"
    /\ Len(ret.val.kids) = 2
    /\ ret.val.kids[1].kids # ret.val.kids[2].kids

\* No Sequence of t is without elements.
RECURSIVE SequencesAreNonEmpty(_)
SequencesAreNonEmpty(t) ==
    /\ t.tag = "Sequence" => Len(t.kids) >= 1
    /\ \A k \in 1..Len(t.kids) : SequencesAreNonEmpty(t.kids[k])

TokAt(i) == IF i <= Len(input) THEN input[i] ELSE "EOF"

\* A sequence of a rule body was entered where no element can start, or the
\* empty-sequence error it gave is on its way up.
EmptyBody ==
    \/ \E i \in 1..Len(stack) :
         /\ stack[i].fn = "parse_sequence"
         /\ stack[i].buf = 1
         /\ TokAt(stack[i].start) \in {"=>", "|", "EOF"}
    \/ /\ ret.fn \in {"parse_sequence", "parse_expression", "parse_definition", "parse"}
       /\ ret.buf = 1
       /\ ~ret.ok
       /\ ret.err = "empty_sequence"

\* A rule whose body starts at '=>', '|' or the end of the input is written
\* after a run of well-formed definitions (or first).
EmptyBodyWritten(toks) ==
    \E i \in 1..Len(toks) :
      /\ StartsRule(toks, i)
      /\ (IF BodyStart(toks, i) <= Len(toks) THEN toks[BodyStart(toks, i)] ELSE "EOF")
           \in {"=>", "|", "EOF"}
      /\ (i = 1 \/ IsRunOfRules(SubSeq(toks, 1, i - 1)))

\* C5: every Sequence of a returned tree has at least one element and
\* parse_sequence returns a Sequence whatever their number; a rule body in
\* which no element precedes the '=>', the '|' or the end of the input makes
\* the whole parse fail with the empty-sequence error.
SequenceMinimality ==
    /\ ret.ok => SequencesAreNonEmpty(ret.val)
    /\ (ret.fn = "parse_sequence" /\ ret.ok) => ret.val.tag = "Sequence"
    /\ (Done /\ EmptyBodyWritten(input)) => (~ret.ok /\ ret.err = "empty_sequence")

\* What does hold of C5's failure: once the parser itself, outside speculation
\* and outside any group, has entered such a body, the parse fails with the
\* empty-sequence error.
EnteredEmptyBodyFails ==
    /\ [](ret.ok => SequencesAreNonEmpty(ret.val))
    /\ []((ret.fn = "parse_sequence" /\ ret.ok) => ret.val.tag = "Sequence")
    /\ [][EmptyBody => EmptyBody']_vars

\* C6: the grammar parser returns a DefinitionList only with the read cursor
\* at the end of the stream; the list holds at least one ParserDefinition,
\* each definition is put after those parsed before it, and a failure of a
\* top-level parse_definition is the error of the whole parse.
TopLevelCompleteness ==
    /\ []((Done /\ ret.ok) =>
            /\ bufs[1].pos = Len(input) + 1
            /\ ret.val.tag = "DefinitionList"
            /\ Len(ret.val.kids) >= 1
            /\ \A k \in 1..Len(ret.val.kids) : ret.val.kids[k].tag = "ParserDefinition"
            /\ ret.val.kids[1].name = input[1])
    /\ [][(Running("parse") /\ Top.pc = "def" /\ ~ret.ok) =>
            (Done' /\ ~ret'.ok /\ ret'.err = ret.err)]_vars
    /\ [][(Running("parse") /\ Top.pc = "def" /\ ret.ok) =>
            (IF Done' THEN ret'.val.kids ELSE stack'[1].acc) = Append(Top.acc, ret.val)]_vars

\* Two definitions were returned, the later one last.
TopLevelCompletenessWitness ==
    /\ Done
    /\ ret.ok
    /\ Len(ret.val.kids) = 2
    /\ ret.val.kids[1].name = "a"
    /\ ret.val.kids[2].name = "b"

\* C7: when parse_element fails because the identifier it faces starts a new
\* definition, the real read cursor is where it was before the call, a prefix
\* operator before the identifier included.
BoundaryConsumesNothing ==
    [][(Running("parse_element") /\ Top.pc = "spec" /\ ret.ok /\ ~bufs[Top.buf].fork) =>
         bufs'[Top.buf].pos = Top.start]_vars

\* A speculative parse_definition is running; Speculator is the frame of the
\* outermost parse_element that waits for one.
Speculating == \E i \in 1..(Len(stack) - 1) : stack[i].pc = "spec"

Speculator == CHOOSE i \in 1..(Len(stack) - 1) :
                 stack[i].pc = "spec" /\ \A j \in 1..(i - 1) : stack[j].pc # "spec"

\* C8: the speculative parse_definition moves no cursor but the fork's and
\* changes no frame of its callers; the cursor parse_element forked is, during
\* and right after the speculation, where it was when it was forked.
SpeculationIsPure ==
    /\ [](\A i \in 1..Len(stack) :
            stack[i].pc = "spec" => bufs[stack[i].buf].pos = stack[i].mark)
    /\ [][Speculating =>
            /\ SubSeq(stack', 1, Speculator) = SubSeq(stack, 1, Speculator)
            /\ SubSeq(bufs', 1, stack[Speculator + 1].buf - 1)
                 = SubSeq(bufs, 1, stack[Speculator + 1].buf - 1)]_vars

\* A speculation on the real cursor has succeeded after reading three tokens
\* or more on the fork.
SpeculationIsPureWitness ==
    /\ Running("parse_element")
    /\ Top.pc = "spec"
    /\ Top.buf = 1
    /\ ret.ok
    /\ bufs[Len(bufs)].pos >= Top.mark + 3
    /\ bufs[1].pos = Top.mark

\* C9: parse_element, facing an identifier, gives the rule-boundary failure
\* exactly when the tokens from the identifier on form a rule header
\* IDENT (':' TYPE)? '=', whatever follows the '='.
BoundaryIsHeaderTest ==
    (Running("parse_element") /\ Top.pc = "spec") =>
        (ret.ok <=> HeaderLen(input, Top.mark, bufs[Top.buf].end) > 0)

\* The step in which a loop calls its parser for a further round.
LoopAgain ==
    /\ stack # <<>>
    /\ Top.fn \in {"parse_sequence", "parse_expression", "parse"}
    /\ Top.pc \in {"elem", "seq", "def"}
    /\ Len(stack') = Len(stack) + 1

\* C10: the parse returns; a successful parse_element has advanced its cursor,
\* a loop of parse_sequence, parse_expression or the grammar parser that goes
\* round again starts later than its last round did, and a speculation nested
\* in another starts after the identifier that started the outer one.
Termination ==
    /\ <>Done
    /\ []((ret.fn = "parse_element" /\ ret.ok) => bufs[ret.buf].pos > ret.start)
    /\ [][LoopAgain => stack'[Len(stack')].start > ret.start]_vars
    /\ [](\A i, j \in 1..Len(stack) :
            (i < j /\ stack[i].pc = "spec" /\ stack[j].pc = "spec")
                => stack[j].mark > stack[i].mark)

\* The parse has returned two rules; the second, read speculatively first,
\* starts with an identifier (a speculation nested in that speculation) and
\* holds a second element (a second round of the loop).
TerminationWitness ==
    /\ Done
    /\ ret.ok
    /\ Len(ret.val.kids) = 2
    /\ Len(ret.val.kids[2].kids[1].kids) = 2
    /\ ret.val.kids[2].kids[1].kids[1].tag = "NonTerminal"
    /\ "boundary" \in failed

====
